---- MODULE Spec2Model ----
(***************************************************************************)
(* A model of external-buffered-stream: the persistent FIFO buffer         *)
(* (ExternalBufferSled), the in-memory priority buffer                     *)
(* (ExternalBufferQueue) and the buffered stream engine                    *)
(* (ExternalBufferedStream).  Every shared-memory access of the code       *)
(* (atomic load, fetch_add, store insert/remove, channel send/receive,     *)
(* mutex acquisition) is one step of the thread that performs it.          *)
(***************************************************************************)
EXTENDS Integers, Sequences, FiniteSets, Bags, TLC

\* ------------------------------------------------------------------ bounds
\* number of independent callers of the persistent buffer
NumCallers == 2
\* number of push calls issued on the persistent buffer by the callers
MaxPush == 2
\* number of push calls issued by the single caller of the sequential runs
MaxSeqPush == 3
\* length of the engine's source
MaxSource == 2
\* number of items an earlier run left in the engine's store
MaxResidual == 1
\* number of push calls issued on the in-memory buffer
MaxQPush == 3
\* the items of the in-memory buffer are 1..MaxPrio, ordered as integers
MaxPrio == 2
\* the store found at construction holds a subset of the keys 0..MaxStored-1
MaxStored == 3
\* the items 0..MaxItem are pushed through the codec
MaxItem == 300

\* ------------------------------------------------------------------ state
VARIABLES
    db,            \* sled::Db: key bytes -> value bytes
    head_counter,  \* ExternalBufferSled.head_counter
    tail_counter,  \* ExternalBufferSled.tail_counter
    pc,            \* position of every thread in the code
    loc,           \* locals of every thread
    out,           \* the non-empty results handed out, in order
    pushed,        \* the items whose push reserved a key, in reservation order
    assigned,      \* the keys those pushes reserved, as counters, in the same order
    raced,         \* a push and a shift have been in flight at the same time
    epoch,         \* what the last close/reopen of the store found
    \* ExternalBufferedStream
    src,           \* the source: items 1..srcLen, src of them pulled so far
    srcLen,
    residual,      \* items an earlier run left in the store
    notify,        \* signals queued in the doorbell channel
    sender_alive,  \* notify_tx has not been dropped
    stop_flag,     \* ExternalBufferedStream.stop_flag
    pending,       \* ExternalBufferedStream.pending is Some
    rx_alive,      \* the consumer, and with it the doorbell receiver, is not dropped
    dropSrc,       \* items pulled from the source when the consumer was dropped, else -1
    sent,          \* signals the drain flow has put into the doorbell channel
    push_err,      \* a push of the drain flow has returned an error
    shift_err,     \* a shift of the consumer has returned an error
    recv,          \* signals the consumer has taken from the doorbell channel
    started,       \* shifts the consumer has started
    endOut,        \* Len(out) when poll_next first returned the end marker, else -1
    \* ExternalBufferQueue
    heap,          \* the BinaryHeap behind the mutex, a bag of items
    mutex,         \* the thread holding the lock, 0 when it is free
    qphase,        \* "pushing", "draining" (shifts began after every push
                   \* had returned) or "mixed"
    poisoned       \* a thread panicked while it held the lock

sledVars == <<db, head_counter, tail_counter>>
engVars == <<src, srcLen, residual, notify, sender_alive, stop_flag, pending,
             rx_alive, dropSrc, sent, push_err, shift_err, recv, started, endOut>>
queueVars == <<heap, mutex, qphase, poisoned>>
vars == <<db, head_counter, tail_counter, pc, loc, out, pushed, assigned, raced, epoch,
          engVars, queueVars>>

Callers == 1..NumCallers

NoLoc == [h |-> 0, t |-> 0, key |-> <<>>, data |-> <<>>, res |-> "", item |-> 0]

\* ------------------------------------------------------------------ serde
\* the n low-order bytes of value, least significant first
RECURSIVE LeBytes(_, _)
LeBytes(value, n) ==
    IF n = 0 THEN <<>> ELSE <<value % 256>> \o LeBytes(value \div 256, n - 1)

\* the value of little-endian bytes
RECURSIVE FromLeBytes(_)
FromLeBytes(bytes) ==
    IF Len(bytes) = 0 THEN 0
    ELSE bytes[1] + 256 * FromLeBytes(SubSeq(bytes, 2, Len(bytes)))

\* a decoder that reads the two bytes after the marker 251 most significant
\* byte first
from_external_buffer_be(data) ==
    IF Len(data) = 0 THEN -1
    ELSE IF data[1] < 251 THEN data[1]
    ELSE IF data[1] = 251 /\ Len(data) >= 3 THEN 256 * data[2] + data[3]
    ELSE IF data[1] = 252 /\ Len(data) >= 5 THEN FromLeBytes(SubSeq(data, 2, 5))
    ELSE -1

\* encode_to_vec(item, config::standard()) of an unsigned 32-bit item:
\* bincode's variable-length integers.  A value below 251 is one byte; a
\* value below 2^16 is the marker 251 and two little-endian bytes; a larger
\* one is the marker 252 and four little-endian bytes.
into_external_buffer(item) ==
    IF item < 251 THEN <<item>>
    ELSE IF item < 65536 THEN <<251>> \o LeBytes(item, 2)
    ELSE <<252>> \o LeBytes(item, 4)

\* decode_from_slice(buffer, config::standard()).map(|(u, _)| u): the value
\* the leading bytes encode, bytes after it ignored; an empty or truncated
\* buffer or an unknown marker is a decode error (modelled as -1).
from_external_buffer(data) ==
    IF Len(data) = 0 THEN -1
    ELSE IF data[1] < 251 THEN data[1]
    ELSE IF data[1] = 251 /\ Len(data) >= 3 THEN FromLeBytes(SubSeq(data, 2, 3))
    ELSE IF data[1] = 252 /\ Len(data) >= 5 THEN FromLeBytes(SubSeq(data, 2, 5))
    ELSE -1

\* ------------------------------------------------------------------ keys
\* the n low-order bytes of value, most significant first
RECURSIVE BeBytes(_, _)
BeBytes(value, n) ==
    IF n = 0 THEN <<>> ELSE Append(BeBytes(value \div 256, n - 1), value % 256)

\* ExternalBufferSled::key_from_u64: u64::to_be_bytes
key_from_u64(value) == BeBytes(value, 8)

\* u64::from_be_bytes
RECURSIVE u64_from_be_bytes(_)
u64_from_be_bytes(key) ==
    IF Len(key) = 0 THEN 0
    ELSE 256 * u64_from_be_bytes(SubSeq(key, 1, Len(key) - 1)) + key[Len(key)]

SetMin(S) == CHOOSE x \in S : \A y \in S : x <= y
SetMax(S) == CHOOSE x \in S : \A y \in S : x >= y

\* the keys of the store that are 8 bytes long, as counters
Keys8(d) == {u64_from_be_bytes(k) : k \in {k \in DOMAIN d : Len(k) = 8}}

\* key.as_ref().try_into() to [u8; 8] fails on a slice of another length
TryInto8Fails(k) == Len(k) # 8

\* initialize_counters returns Err(Error::InvalidSledKeyFormat): the
\* conversion of a key fails, and only keys with key.len() == 8 are converted
KeyFormatError(d) == \E k \in DOMAIN d : Len(k) = 8 /\ TryInto8Fails(k)

\* a recovery that takes the tail from the number of keys found
initialize_counters_count(d) ==
    IF Keys8(d) # {} THEN <<SetMin(Keys8(d)), SetMin(Keys8(d)) + Cardinality(Keys8(d))>>
    ELSE <<0, 0>>

\* a recovery that takes the largest key itself for the tail
initialize_counters_max(d) ==
    IF Keys8(d) # {} THEN <<SetMin(Keys8(d)), SetMax(Keys8(d))>>
    ELSE <<0, 0>>

\* ExternalBufferSled::initialize_counters: <<head, tail>>
initialize_counters(d) ==
    IF Keys8(d) # {} THEN <<SetMin(Keys8(d)), SetMax(Keys8(d)) + 1>>
    ELSE <<0, 0>>

EmptyDb == [k \in {} |-> <<>>]

DbInsert(d, k, v) == [x \in DOMAIN d \cup {k} |-> IF x = k THEN v ELSE d[x]]
DbRemove(d, k) == [x \in DOMAIN d \ {k} |-> d[x]]

\* ------------------------------------------------- ExternalBufferSled::push
\* a push that reads the tail counter without adding to it
PushReserve_load(t, item) ==
    /\ loc' = [loc EXCEPT ![t] = [NoLoc EXCEPT !.item = item,
                                               !.data = into_external_buffer(item),
                                               !.key = key_from_u64(tail_counter)]]
    /\ pushed' = Append(pushed, item)
    /\ assigned' = Append(assigned, tail_counter)
    /\ pc' = [pc EXCEPT ![t] = "p_insert"]
    /\ UNCHANGED <<db, head_counter, tail_counter>>

\* encode the item, then tail_counter.fetch_add(1): the key is reserved
PushReserve(t, item) ==
    /\ loc' = [loc EXCEPT ![t] = [NoLoc EXCEPT !.item = item,
                                               !.data = into_external_buffer(item),
                                               !.key = key_from_u64(tail_counter)]]
    /\ tail_counter' = tail_counter + 1
    /\ pushed' = Append(pushed, item)
    /\ assigned' = Append(assigned, tail_counter)
    /\ pc' = [pc EXCEPT ![t] = "p_insert"]
    /\ UNCHANGED <<db, head_counter>>

\* db.insert(key, serialized); Ok(()).  ret is where the caller goes on.
PushInsert(t, ret) ==
    /\ pc[t] = "p_insert"
    /\ db' = DbInsert(db, loc[t].key, loc[t].data)
    /\ loc' = [loc EXCEPT ![t] = [NoLoc EXCEPT !.res = "ok"]]
    /\ pc' = [pc EXCEPT ![t] = ret]
    /\ UNCHANGED <<head_counter, tail_counter, pushed, assigned>>

\* ------------------------------------------------ ExternalBufferSled::shift
\* current_head = head_counter.load()
ShiftLoadHead(t) ==
    /\ loc' = [loc EXCEPT ![t] = [NoLoc EXCEPT !.h = head_counter]]
    /\ pc' = [pc EXCEPT ![t] = "s_tail"]
    /\ UNCHANGED <<db, head_counter, tail_counter, pushed, assigned>>

\* a shift that removes at the newest key instead of the oldest
ShiftLoadTail_newest(t, ret) ==
    /\ pc[t] = "s_tail"
    /\ IF loc[t].h >= tail_counter
       THEN /\ loc' = [loc EXCEPT ![t] = [NoLoc EXCEPT !.res = "none"]]
            /\ pc' = [pc EXCEPT ![t] = ret]
       ELSE /\ loc' = [loc EXCEPT ![t].t = tail_counter,
                                  ![t].key = key_from_u64(tail_counter - 1)]
            /\ pc' = [pc EXCEPT ![t] = "s_remove"]
    /\ UNCHANGED <<db, head_counter, tail_counter, pushed, assigned>>

\* current_tail = tail_counter.load(); return Ok(None) when head >= tail
ShiftLoadTail(t, ret) ==
    /\ pc[t] = "s_tail"
    /\ IF loc[t].h >= tail_counter
       THEN /\ loc' = [loc EXCEPT ![t] = [NoLoc EXCEPT !.res = "none"]]
            /\ pc' = [pc EXCEPT ![t] = ret]
       ELSE /\ loc' = [loc EXCEPT ![t].t = tail_counter,
                                  ![t].key = key_from_u64(loc[t].h)]
            /\ pc' = [pc EXCEPT ![t] = "s_remove"]
    /\ UNCHANGED <<db, head_counter, tail_counter, pushed, assigned>>

\* a removal that reads the value and leaves it in the store
ShiftRemove_get(t) ==
    /\ pc[t] = "s_remove"
    /\ IF loc[t].key \in DOMAIN db
       THEN /\ loc' = [loc EXCEPT ![t].data = db[loc[t].key]]
            /\ pc' = [pc EXCEPT ![t] = "s_inc_some"]
       ELSE /\ pc' = [pc EXCEPT ![t] = "s_inc_none"]
            /\ UNCHANGED loc
    /\ UNCHANGED <<db, head_counter, tail_counter, pushed, assigned>>

\* db.remove(key): the value that was stored, removed atomically, or nothing
ShiftRemove(t) ==
    /\ pc[t] = "s_remove"
    /\ IF loc[t].key \in DOMAIN db
       THEN /\ loc' = [loc EXCEPT ![t].data = db[loc[t].key]]
            /\ db' = DbRemove(db, loc[t].key)
            /\ pc' = [pc EXCEPT ![t] = "s_inc_some"]
       ELSE /\ pc' = [pc EXCEPT ![t] = "s_inc_none"]
            /\ UNCHANGED <<db, loc>>
    /\ UNCHANGED <<head_counter, tail_counter, pushed, assigned>>

\* a shift that decodes before it advances head, and returns the decode
\* error with head where it was
ShiftIncSome_decode_first(t, ret) ==
    /\ pc[t] = "s_inc_some"
    /\ LET item == from_external_buffer(loc[t].data)
       IN /\ head_counter' = IF item = -1 THEN head_counter ELSE head_counter + 1
          /\ loc' = [loc EXCEPT ![t] = [NoLoc EXCEPT !.item = item,
                                     !.res = IF item = -1 THEN "err" ELSE "some"]]
    /\ pc' = [pc EXCEPT ![t] = ret]
    /\ UNCHANGED <<db, tail_counter, pushed, assigned>>

\* Some(data): head_counter.fetch_add(1), decode, return the item
ShiftIncSome(t, ret) ==
    /\ pc[t] = "s_inc_some"
    /\ head_counter' = head_counter + 1
    /\ LET item == from_external_buffer(loc[t].data)
       IN loc' = [loc EXCEPT ![t] = [NoLoc EXCEPT !.item = item,
                                  !.res = IF item = -1 THEN "err" ELSE "some"]]
    /\ pc' = [pc EXCEPT ![t] = ret]
    /\ UNCHANGED <<db, tail_counter, pushed, assigned>>

\* None: head_counter.fetch_add(1), continue
ShiftIncNone(t) ==
    /\ pc[t] = "s_inc_none"
    /\ head_counter' = head_counter + 1
    /\ pc' = [pc EXCEPT ![t] = "s_head"]
    /\ UNCHANGED <<db, tail_counter, loc, pushed, assigned>>

\* db.insert(key, serialized)? fails: push returns Err(Error::SledError)
PushInsertFail(t, ret) ==
    /\ pc[t] = "p_insert"
    /\ loc' = [loc EXCEPT ![t] = [NoLoc EXCEPT !.res = "err"]]
    /\ pc' = [pc EXCEPT ![t] = ret]
    /\ UNCHANGED <<db, head_counter, tail_counter, pushed, assigned>>

\* a push that reserves its key before it encodes the item
PushEncodeFail_reserved(t, item) ==
    /\ loc' = [loc EXCEPT ![t] = [NoLoc EXCEPT !.item = item, !.res = "encode_err"]]
    /\ tail_counter' = tail_counter + 1
    /\ UNCHANGED <<db, head_counter, pc, pushed, assigned>>

\* item.into_external_buffer()? fails: push returns the error of the item's
\* ExternalBufferSerde implementation before it touches a counter or the store
PushEncodeFail(t, item) ==
    /\ loc' = [loc EXCEPT ![t] = [NoLoc EXCEPT !.item = item, !.res = "encode_err"]]
    /\ UNCHANGED <<db, head_counter, tail_counter, pc, pushed, assigned>>

\* db.remove(key)? fails: shift returns Err(Error::SledError)
ShiftRemoveFail(t, ret) ==
    /\ pc[t] = "s_remove"
    /\ loc' = [loc EXCEPT ![t] = [NoLoc EXCEPT !.res = "err"]]
    /\ pc' = [pc EXCEPT ![t] = ret]
    /\ UNCHANGED <<db, head_counter, tail_counter, pushed, assigned>>

\* the loop of shift comes back to its first load
ShiftRetry(t) == pc[t] = "s_head" /\ ShiftLoadHead(t)

InPush(t) == pc[t] = "p_insert"
InShift(t) == pc[t] \in {"s_head", "s_tail", "s_remove", "s_inc_some", "s_inc_none"}

\* ------------------------------------------- callers of the persistent buffer
\* a caller calls push with a fresh item, the items being 1, 2, ..., max
CallerPushUpTo(t, max) ==
    /\ pc[t] = "idle"
    /\ Len(pushed) < max
    /\ PushReserve(t, Len(pushed) + 1)
    /\ raced' = (raced \/ \E u \in Callers : InShift(u))
    /\ UNCHANGED <<out, epoch, engVars, queueVars>>

CallerPush(t) == CallerPushUpTo(t, MaxPush)

\* a caller calls shift
CallerShift(t) ==
    /\ pc[t] = "idle"
    /\ ShiftLoadHead(t)
    /\ raced' = (raced \/ \E u \in Callers : InPush(u))
    /\ UNCHANGED <<out, epoch, engVars, queueVars>>

\* a step inside a call; a call that returns leaves its result in loc[t]
\* and a shifted item is appended to out
CallerStep(t) ==
    /\ \/ PushInsert(t, "idle") /\ UNCHANGED out
       \/ ShiftRetry(t) /\ UNCHANGED out
       \/ ShiftLoadTail(t, "idle") /\ UNCHANGED out
       \/ ShiftRemove(t) /\ UNCHANGED out
       \/ /\ ShiftIncSome(t, "idle")
          /\ out' = IF loc'[t].res = "some" THEN Append(out, loc'[t].item) ELSE out
       \/ ShiftIncNone(t) /\ UNCHANGED out
    /\ UNCHANGED <<raced, epoch, engVars, queueVars>>

\* the buffer is dropped and ExternalBufferSled::new opens the same path
ReopenStore ==
    /\ \A t \in Callers : pc[t] = "idle"
    /\ head_counter' = initialize_counters(db)[1]
    /\ tail_counter' = initialize_counters(db)[2]
    /\ UNCHANGED <<db, pc, loc, out, pushed, assigned, raced, engVars, queueVars>>

\* close and reopen between the calls of concurrent callers, remembering how
\* many pushes the closed buffer had served
Reopen ==
    /\ ReopenStore
    /\ epoch' = [epoch EXCEPT !.reopened = TRUE, !.pushed = Len(pushed)]

NoEpoch == [reopened |-> FALSE, err |-> FALSE, empty |-> FALSE,
            pushed |-> 0, out |-> 0]

EngineOff ==
    /\ src = 0
    /\ srcLen = 0
    /\ residual = 0
    /\ notify = 0
    /\ sender_alive = FALSE
    /\ stop_flag = FALSE
    /\ pending = FALSE
    /\ rx_alive = FALSE
    /\ dropSrc = -1
    /\ sent = 0
    /\ push_err = FALSE
    /\ shift_err = FALSE
    /\ recv = 0
    /\ started = 0
    /\ endOut = -1

QueueOff ==
    /\ heap = EmptyBag
    /\ mutex = 0
    /\ qphase = "pushing"
    /\ poisoned = FALSE

\* ExternalBufferSled::new on a fresh path
InitSled ==
    /\ db = EmptyDb
    /\ head_counter = initialize_counters(EmptyDb)[1]
    /\ tail_counter = initialize_counters(EmptyDb)[2]
    /\ pc = [t \in Callers |-> "idle"]
    /\ loc = [t \in Callers |-> NoLoc]
    /\ out = <<>>
    /\ pushed = <<>>
    /\ assigned = <<>>
    /\ raced = FALSE
    /\ epoch = NoEpoch
    /\ EngineOff
    /\ QueueOff

NextSled ==
    \/ \E t \in Callers : CallerPush(t)
    \/ \E t \in Callers : CallerShift(t)
    \/ \E t \in Callers : CallerStep(t)
    \/ Reopen

\* concurrent callers of one persistent buffer
SpecSled == InitSled /\ [][NextSled]_vars

\* ------------------------------------ one pushing and one shifting caller
Pusher == 1
Shifter == 2

PusherPush == CallerPushUpTo(Pusher, MaxSeqPush)
PusherStep == pc[Pusher] = "p_insert" /\ CallerStep(Pusher)
ShifterShift == CallerShift(Shifter)
ShifterStep == InShift(Shifter) /\ CallerStep(Shifter)

NextPushShift ==
    \/ PusherPush
    \/ PusherStep
    \/ ShifterShift
    \/ ShifterStep

\* one thread pushing while another thread shifts, on one opened buffer
SpecPushShift == InitSled /\ [][NextPushShift]_vars

\* ----------------------------- pushes of items whose encoding may fail
\* the pusher calls push with an item that its codec cannot encode
PusherEncodeFail ==
    /\ pc[Pusher] = "idle"
    /\ Len(pushed) < MaxSeqPush
    /\ PushEncodeFail(Pusher, Len(pushed) + 1)
    /\ UNCHANGED <<out, raced, epoch, engVars, queueVars>>

NextEncode ==
    \/ NextPushShift
    \/ PusherEncodeFail

\* one thread pushing items of a type whose encoding may fail while another
\* thread shifts
SpecEncode == InitSled /\ [][NextEncode]_vars

\* ------------------------------------- one caller of the persistent buffer
\* close and reopen, remembering what the reopened store held
ReopenSeq ==
    /\ ReopenStore
    /\ epoch' = [reopened |-> TRUE, err |-> KeyFormatError(db),
                 empty |-> (DOMAIN db = {}),
                 pushed |-> Len(pushed), out |-> Len(out)]

SeqPush == CallerPushUpTo(1, MaxSeqPush)

NextSeq ==
    \/ SeqPush
    \/ CallerShift(1)
    \/ CallerStep(1)
    \/ ReopenSeq

\* the calls of one thread, one after the other, and close/reopen
SpecSeq == InitSled /\ [][NextSeq]_vars

\* ------------------------------------- opening a store that holds keys
\* keys of another length than 8 that somebody else wrote to the store
ForeignKeys == {<<7>>, BeBytes(1, 9)}

\* a store holding the items 101 + i under the counter keys i of C, and the
\* foreign keys F
StoreOf(C, F) ==
    [k \in {key_from_u64(i) : i \in C} \cup F |->
        IF Len(k) = 8 THEN into_external_buffer(101 + u64_from_be_bytes(k))
        ELSE <<0>>]

\* the path holds some store; no buffer has been constructed yet
InitOpen ==
    /\ db \in {StoreOf(C, F) : C \in SUBSET (0..(MaxStored - 1)),
                                F \in SUBSET ForeignKeys}
    /\ head_counter = 0
    /\ tail_counter = 0
    /\ pc = [t \in Callers |-> "idle"]
    /\ loc = [t \in Callers |-> NoLoc]
    /\ out = <<>>
    /\ pushed = <<>>
    /\ assigned = <<>>
    /\ raced = FALSE
    /\ epoch = NoEpoch
    /\ EngineOff
    /\ QueueOff

\* ExternalBufferSled::new returned Ok(buffer)
Opened == epoch.reopened /\ ~epoch.err

OpenPush == Opened /\ SeqPush
OpenShift == Opened /\ CallerShift(1)
OpenStep == Opened /\ CallerStep(1)

NextOpen ==
    \/ ReopenSeq
    \/ OpenPush
    \/ OpenShift
    \/ OpenStep

\* ExternalBufferSled::new over an existing store, then one caller
SpecOpen == InitOpen /\ [][NextOpen]_vars

\* ------------------------- opening a store that holds undecodable values
\* the encoding of an item of three bytes, cut after its second byte
Truncated == SubSeq(into_external_buffer(MaxItem), 1, 2)

\* a store holding under the counter keys i of C the items 101 + i, cut
\* short under the keys of U
StoreCut(C, U) ==
    [k \in {key_from_u64(i) : i \in C} |->
        IF u64_from_be_bytes(k) \in U THEN Truncated
        ELSE into_external_buffer(101 + u64_from_be_bytes(k))]

\* the path holds some store, some of its values undecodable; no buffer has
\* been constructed yet
InitDecode ==
    /\ db \in {StoreCut(C, U) : C \in SUBSET (0..(MaxStored - 1)),
                                 U \in SUBSET (0..(MaxStored - 1))}
    /\ head_counter = 0
    /\ tail_counter = 0
    /\ pc = [t \in Callers |-> "idle"]
    /\ loc = [t \in Callers |-> NoLoc]
    /\ out = <<>>
    /\ pushed = <<>>
    /\ assigned = <<>>
    /\ raced = FALSE
    /\ epoch = NoEpoch
    /\ EngineOff
    /\ QueueOff

\* ExternalBufferSled::new over such a store, then one caller
SpecDecode == InitDecode /\ [][NextOpen]_vars

\* ------------------------------------------- one item through the codec
\* the items pushed through the codec: both sides of each change of
\* encoding length
SerdeItems == (0..MaxItem) \cup {65535, 65536, 65536 + MaxItem}

\* the caller pushes one item of its choice
SerdePush(item) ==
    /\ pc[1] = "idle"
    /\ pushed = <<>>
    /\ PushReserve(1, item)
    /\ UNCHANGED <<out, raced, epoch, engVars, queueVars>>

NextSerde ==
    \/ \E item \in SerdeItems : SerdePush(item)
    \/ CallerShift(1)
    \/ CallerStep(1)

\* one push of any item and the shifts of one thread
SpecSerde == InitSled /\ [][NextSerde]_vars

\* ------------------------------------------------ ExternalBufferedStream
\* the two flows of the engine
Drain == NumCallers + 1
Cons == NumCallers + 2

\* the items an earlier run left behind, oldest first
ResidualItems(r) == [i \in 1..r |-> 100 + i]

\* the store that earlier run left: its items under the keys 0, 1, ...
ResidualDb(r) ==
    [k \in {key_from_u64(i - 1) : i \in 1..r} |->
        into_external_buffer(ResidualItems(r)[u64_from_be_bytes(k) + 1])]

\* ExternalBufferedStream::new over ExternalBufferSled::new(path)
InitEngine ==
    /\ srcLen \in 0..MaxSource
    /\ residual \in 0..MaxResidual
    /\ db = ResidualDb(residual)
    /\ head_counter = initialize_counters(db)[1]
    /\ tail_counter = initialize_counters(db)[2]
    /\ pc = [t \in {Drain, Cons} |-> IF t = Drain THEN "d_next" ELSE "c_top"]
    /\ loc = [t \in {Drain, Cons} |-> NoLoc]
    /\ out = <<>>
    /\ pushed = <<>>
    /\ assigned = <<>>
    /\ raced = FALSE
    /\ epoch = NoEpoch
    /\ src = 0
    /\ notify = 0
    /\ sender_alive = TRUE
    /\ stop_flag = FALSE
    /\ pending = FALSE
    /\ rx_alive = TRUE
    /\ dropSrc = -1
    /\ sent = 0
    /\ push_err = FALSE
    /\ shift_err = FALSE
    /\ recv = 0
    /\ started = 0
    /\ endOut = -1
    /\ QueueOff

\* handle_source: while let Some(item) = source.next().await
DrainNext ==
    /\ pc[Drain] = "d_next"
    /\ IF src < srcLen
       THEN /\ src' = src + 1
            /\ loc' = [loc EXCEPT ![Drain] = [NoLoc EXCEPT !.item = src + 1]]
            /\ pc' = [pc EXCEPT ![Drain] = "d_push"]
       ELSE /\ pc' = [pc EXCEPT ![Drain] = "d_stop"]
            /\ UNCHANGED <<src, loc>>
    /\ UNCHANGED <<sledVars, out, pushed, assigned, raced, epoch, srcLen, residual, rx_alive, dropSrc, sent, push_err, shift_err, notify,
                   sender_alive, stop_flag, pending, recv, started, endOut, queueVars>>

\* a drain flow that rings the doorbell as soon as the key is reserved
DrainPush_signal ==
    /\ pc[Drain] = "d_push"
    /\ PushReserve(Drain, loc[Drain].item)
    /\ notify' = notify + 1
    /\ sent' = sent + 1
    /\ UNCHANGED <<out, raced, epoch, src, srcLen, residual, sender_alive, stop_flag,
                   pending, rx_alive, dropSrc, push_err, shift_err, recv, started,
                   endOut, queueVars>>

\* handle_source: buffer_clone.push(item), up to the key reservation
DrainPush ==
    /\ pc[Drain] = "d_push"
    /\ PushReserve(Drain, loc[Drain].item)
    /\ UNCHANGED <<out, raced, epoch, engVars, queueVars>>

\* handle_source: the push inserts and returns Ok(())
DrainInsert ==
    /\ PushInsert(Drain, "d_send")
    /\ UNCHANGED <<out, raced, epoch, engVars, queueVars>>

\* a drain flow that tries the failed push again
DrainInsertFail_retry ==
    /\ ~push_err
    /\ PushInsertFail(Drain, "d_push")
    /\ push_err' = TRUE
    /\ UNCHANGED <<out, raced, epoch, src, srcLen, residual, notify, sender_alive,
                   stop_flag, pending, rx_alive, dropSrc, sent, shift_err, recv, started,
                   endOut, queueVars>>

\* handle_source: the push fails in db.insert; Err(e) => break
DrainInsertFail ==
    /\ PushInsertFail(Drain, "d_stop")
    /\ push_err' = TRUE
    /\ UNCHANGED <<out, raced, epoch, src, srcLen, residual, notify, sender_alive,
                   stop_flag, pending, rx_alive, dropSrc, sent, shift_err, recv, started, endOut, queueVars>>

\* a drain flow that goes on to the next item whatever send returned
DrainSend_unchecked ==
    /\ pc[Drain] = "d_send"
    /\ notify' = IF rx_alive THEN notify + 1 ELSE notify
    /\ sent' = IF rx_alive THEN sent + 1 ELSE sent
    /\ pc' = [pc EXCEPT ![Drain] = "d_next"]
    /\ UNCHANGED <<sledVars, loc, out, pushed, assigned, raced, epoch, src, srcLen, residual,
                   rx_alive, dropSrc, push_err, shift_err,
                   sender_alive, stop_flag, pending, recv, started, endOut, queueVars>>

\* handle_source: notify_tx.send(()).await on the unbounded channel: Ok
\* while the receiver exists; once it is dropped, Err(e) => break
DrainSend ==
    /\ pc[Drain] = "d_send"
    /\ IF rx_alive
       THEN /\ notify' = notify + 1
            /\ sent' = sent + 1
            /\ pc' = [pc EXCEPT ![Drain] = "d_next"]
       ELSE /\ pc' = [pc EXCEPT ![Drain] = "d_stop"]
            /\ UNCHANGED <<notify, sent>>
    /\ UNCHANGED <<sledVars, loc, out, pushed, assigned, raced, epoch, src, srcLen, residual,
                   rx_alive, dropSrc, push_err, shift_err,
                   sender_alive, stop_flag, pending, recv, started, endOut, queueVars>>

\* handle_source: stop_flag_clone.store(true)
DrainStop ==
    /\ pc[Drain] = "d_stop"
    /\ stop_flag' = TRUE
    /\ pc' = [pc EXCEPT ![Drain] = "d_final"]
    /\ UNCHANGED <<sledVars, loc, out, pushed, assigned, raced, epoch, src, srcLen, residual, rx_alive, dropSrc, sent, push_err, shift_err,
                   notify, sender_alive, pending, recv, started, endOut, queueVars>>

\* a drain flow whose sender outlives it
DrainFinal_leak ==
    /\ pc[Drain] = "d_final"
    /\ pc' = [pc EXCEPT ![Drain] = "d_done"]
    /\ UNCHANGED <<sledVars, loc, out, pushed, assigned, raced, epoch, engVars, queueVars>>

\* handle_source: `_ = notify_tx.send(())` builds the send future and drops
\* it unpolled, so nothing is queued; the block ends and drops notify_tx
DrainFinal ==
    /\ pc[Drain] = "d_final"
    /\ sender_alive' = FALSE
    /\ pc' = [pc EXCEPT ![Drain] = "d_done"]
    /\ UNCHANGED <<sledVars, loc, out, pushed, assigned, raced, epoch, src, srcLen, residual, rx_alive, dropSrc, sent, push_err, shift_err,
                   notify, stop_flag, pending, recv, started, endOut, queueVars>>

\* what endOut becomes when poll_next returns the end marker
FirstEnd == IF endOut = -1 THEN Len(out) ELSE endOut

\* a poll_next that clears the stop flag as it reads it
ConsTop_swap ==
    /\ pc[Cons] = "c_top"
    /\ pc' = [pc EXCEPT ![Cons] =
                 IF stop_flag THEN "c_end"
                 ELSE IF pending THEN "s_head"
                 ELSE "c_notify"]
    /\ stop_flag' = FALSE
    /\ started' = IF ~stop_flag /\ pending THEN started + 1 ELSE started
    /\ endOut' = IF stop_flag THEN FirstEnd ELSE endOut
    /\ UNCHANGED <<sledVars, loc, out, pushed, assigned, raced, epoch, src, srcLen, residual,
                   notify, sender_alive, pending, rx_alive, dropSrc, sent,
                   push_err, shift_err, recv, queueVars>>

\* poll_next: the stop flag is loaded at the top of the loop; when it is
\* not set, a pending shift is polled, else the doorbell
ConsTop ==
    /\ pc[Cons] = "c_top"
    /\ pc' = [pc EXCEPT ![Cons] =
                 IF stop_flag THEN "c_end"
                 ELSE IF pending THEN "s_head"
                 ELSE "c_notify"]
    /\ started' = IF ~stop_flag /\ pending THEN started + 1 ELSE started
    /\ endOut' = IF stop_flag THEN FirstEnd ELSE endOut
    /\ UNCHANGED <<sledVars, loc, out, pushed, assigned, raced, epoch, src, srcLen, residual,
                   notify, sender_alive, stop_flag, pending, rx_alive, dropSrc, sent,
                   push_err, shift_err, recv, queueVars>>

\* poll_next: pending.poll runs buffer.shift()
ConsShift ==
    /\ \/ ShiftRetry(Cons)
       \/ ShiftLoadTail(Cons, "c_result")
       \/ ShiftRemove(Cons)
       \/ ShiftIncSome(Cons, "c_result")
       \/ ShiftIncNone(Cons)
    /\ UNCHANGED <<out, raced, epoch, engVars, queueVars>>

\* poll_next: the pending shift fails in db.remove
ConsShiftFail ==
    /\ ~shift_err
    /\ ShiftRemoveFail(Cons, "c_result")
    /\ shift_err' = TRUE
    /\ UNCHANGED <<out, raced, epoch, src, srcLen, residual, notify, sender_alive,
                   stop_flag, pending, rx_alive, dropSrc, sent, push_err, recv, started, endOut, queueVars>>

\* a poll_next that keeps the failed shift in flight and runs it again
ConsResult_retry ==
    /\ pc[Cons] = "c_result"
    /\ pending' = (loc[Cons].res = "err")
    /\ out' = IF loc[Cons].res = "some" THEN Append(out, loc[Cons].item) ELSE out
    /\ pc' = [pc EXCEPT ![Cons] =
                 IF loc[Cons].res = "some" THEN "c_top"
                 ELSE IF loc[Cons].res = "none" THEN "c_notify"
                 ELSE "s_head"]
    /\ started' = IF loc[Cons].res = "err" THEN started + 1 ELSE started
    /\ UNCHANGED <<sledVars, loc, pushed, assigned, raced, epoch, src, srcLen, residual,
                   rx_alive, dropSrc, sent, push_err, shift_err,
                   notify, sender_alive, stop_flag, recv, endOut, queueVars>>

\* a poll_next that ends the sequence on an empty shift result
ConsResult_none_ends ==
    /\ pc[Cons] = "c_result"
    /\ pending' = FALSE
    /\ out' = IF loc[Cons].res = "some" THEN Append(out, loc[Cons].item) ELSE out
    /\ pc' = [pc EXCEPT ![Cons] = IF loc[Cons].res = "some" THEN "c_top" ELSE "c_end"]
    /\ endOut' = IF loc[Cons].res = "some" THEN endOut ELSE FirstEnd
    /\ UNCHANGED <<sledVars, loc, pushed, assigned, raced, epoch, src, srcLen, residual,
                   rx_alive, dropSrc, sent, push_err, shift_err,
                   notify, sender_alive, stop_flag, recv, started, queueVars>>

\* poll_next: Poll::Ready(result) of the pending shift
ConsResult ==
    /\ pc[Cons] = "c_result"
    /\ pending' = FALSE
    /\ out' = IF loc[Cons].res = "some" THEN Append(out, loc[Cons].item) ELSE out
    /\ pc' = [pc EXCEPT ![Cons] =
                 IF loc[Cons].res = "some" THEN "c_top"
                 ELSE IF loc[Cons].res = "none" THEN "c_notify"
                 ELSE "c_end"]
    /\ endOut' = IF loc[Cons].res \in {"some", "none"} THEN endOut ELSE FirstEnd
    /\ UNCHANGED <<sledVars, loc, pushed, assigned, raced, epoch, src, srcLen, residual,
                   rx_alive, dropSrc, sent, push_err, shift_err,
                   notify, sender_alive, stop_flag, recv, started, queueVars>>

\* a poll_next that starts a shift whenever the doorbell is silent
ConsNotify_busy ==
    /\ pc[Cons] = "c_notify"
    /\ IF notify > 0
       THEN /\ notify' = notify - 1
            /\ recv' = recv + 1
            /\ pending' = TRUE
            /\ pc' = [pc EXCEPT ![Cons] = "c_top"]
            /\ UNCHANGED endOut
       ELSE /\ pending' = sender_alive
            /\ pc' = [pc EXCEPT ![Cons] = IF sender_alive THEN "c_top" ELSE "c_end"]
            /\ endOut' = IF sender_alive THEN endOut ELSE FirstEnd
            /\ UNCHANGED <<notify, recv>>
    /\ UNCHANGED <<sledVars, loc, out, pushed, assigned, raced, epoch, src, srcLen, residual,
                   rx_alive, dropSrc, sent, push_err, shift_err,
                   sender_alive, stop_flag, started, queueVars>>

\* poll_next: notify.poll_next_unpin: a signal starts a shift; a closed and
\* empty channel ends the sequence; else Poll::Pending
ConsNotify ==
    /\ pc[Cons] = "c_notify"
    /\ IF notify > 0
       THEN /\ notify' = notify - 1
            /\ recv' = recv + 1
            /\ pending' = TRUE
            /\ pc' = [pc EXCEPT ![Cons] = "c_top"]
            /\ UNCHANGED endOut
       ELSE /\ pc' = [pc EXCEPT ![Cons] = IF sender_alive THEN "c_wait" ELSE "c_end"]
            /\ endOut' = IF sender_alive THEN endOut ELSE FirstEnd
            /\ UNCHANGED <<notify, pending, recv>>
    /\ UNCHANGED <<sledVars, loc, out, pushed, assigned, raced, epoch, src, srcLen, residual,
                   rx_alive, dropSrc, sent, push_err, shift_err,
                   sender_alive, stop_flag, started, queueVars>>

\* poll_next returned Poll::Pending; the consumer is polled again
ConsRepoll ==
    /\ pc[Cons] = "c_wait"
    /\ pc' = [pc EXCEPT ![Cons] = "c_top"]
    /\ UNCHANGED <<sledVars, loc, out, pushed, assigned, raced, epoch, engVars, queueVars>>

\* the consumer calls poll_next again after it was given the end marker
ConsPollAfterEnd ==
    /\ pc[Cons] = "c_end"
    /\ pc' = [pc EXCEPT ![Cons] = "c_top"]
    /\ UNCHANGED <<sledVars, loc, out, pushed, assigned, raced, epoch, engVars, queueVars>>

\* between two polls, or after the end marker, the consumer drops the
\* ExternalBufferedStream and with it the doorbell receiver and the signals
\* still queued in the channel
ConsDrop ==
    /\ \/ pc[Cons] \in {"c_wait", "c_end"}
       \/ pc[Cons] = "c_top" /\ ~pending
    /\ pc' = [pc EXCEPT ![Cons] = "c_dropped"]
    /\ rx_alive' = FALSE
    /\ dropSrc' = src
    /\ notify' = 0
    /\ UNCHANGED <<sledVars, loc, out, pushed, assigned, raced, epoch, src, srcLen, residual,
                   sender_alive, stop_flag, pending, sent, push_err, shift_err,
                   recv, started, endOut, queueVars>>

NextEngine ==
    \/ DrainNext
    \/ DrainPush
    \/ DrainInsert
    \/ DrainInsertFail
    \/ DrainSend
    \/ DrainStop
    \/ DrainFinal
    \/ ConsTop
    \/ ConsShift
    \/ ConsShiftFail
    \/ ConsResult
    \/ ConsNotify
    \/ ConsRepoll
    \/ ConsPollAfterEnd
    \/ ConsDrop

\* the drain flow and the consumer of one engine over the persistent buffer
SpecEngine == InitEngine /\ [][NextEngine]_vars

\* ExternalBufferedStream is generic over B: ExternalBuffer<T>; the shift of
\* a buffer may resolve to Ok(None) whenever it finds the buffer empty
ConsShiftEmpty ==
    /\ pc[Cons] = "s_head"
    /\ loc' = [loc EXCEPT ![Cons] = [NoLoc EXCEPT !.res = "none"]]
    /\ pc' = [pc EXCEPT ![Cons] = "c_result"]
    /\ UNCHANGED <<sledVars, out, pushed, assigned, raced, epoch, engVars, queueVars>>

NextEngineAny ==
    \/ NextEngine
    \/ ConsShiftEmpty

\* the engine over a buffer whose shift may find nothing after a signal
SpecEngineAny == InitEngine /\ [][NextEngineAny]_vars

\* the steps the spawned drain task takes when it is scheduled
DrainFlow ==
    \/ DrainNext
    \/ DrainPush
    \/ DrainInsert
    \/ DrainSend
    \/ DrainStop
    \/ DrainFinal

\* the waker poll_next_unpin registered is called: a signal was sent or the
\* last sender was dropped
ConsWoken == (notify > 0 \/ ~sender_alive) /\ ConsRepoll

\* the steps the consumer takes: it goes on polling, and after
\* Poll::Pending is polled again once woken
ConsFlow ==
    \/ ConsTop
    \/ ConsShift
    \/ ConsResult
    \/ ConsNotify
    \/ ConsWoken

\* the engine under a fair scheduler of the two tasks
SpecEngineFair ==
    InitEngine /\ [][NextEngine]_vars /\ WF_vars(DrainFlow) /\ WF_vars(ConsFlow)

\* --------------------------------------------------- ExternalBufferQueue
\* BinaryHeap::pop on a non-empty min-ordered heap
BinaryHeapPop_min(h) == SetMin(BagToSet(h))

\* BinaryHeap::pop on a non-empty heap: the greatest item
BinaryHeapPop(h) == SetMax(BagToSet(h))

\* a caller calls push(item) or shift() and comes to self.queue.lock()
QCallPush(t, item) ==
    /\ pc[t] = "idle"
    /\ Len(pushed) < MaxQPush
    /\ pushed' = Append(pushed, item)
    /\ loc' = [loc EXCEPT ![t] = [NoLoc EXCEPT !.item = item]]
    /\ pc' = [pc EXCEPT ![t] = "q_lock_push"]
    /\ qphase' = IF qphase = "pushing" THEN "pushing" ELSE "mixed"
    /\ UNCHANGED <<sledVars, out, assigned, raced, epoch, engVars, heap, mutex, poisoned>>

QCallShift(t) ==
    /\ pc[t] = "idle"
    /\ loc' = [loc EXCEPT ![t] = NoLoc]
    /\ pc' = [pc EXCEPT ![t] = "q_lock_shift"]
    /\ qphase' = IF qphase = "pushing" /\ \E u \in Callers : pc[u] \in {"q_lock_push", "q_push"}
                 THEN "mixed"
                 ELSE IF qphase = "pushing" THEN "draining" ELSE qphase
    /\ UNCHANGED <<sledVars, out, pushed, assigned, raced, epoch, engVars, heap, mutex, poisoned>>

\* a lock that takes the guard out of a PoisonError and goes on
QLock_into_inner(t) ==
    /\ pc[t] \in {"q_lock_push", "q_lock_shift"}
    /\ mutex = 0
    /\ mutex' = t
    /\ pc' = [pc EXCEPT ![t] = IF pc[t] = "q_lock_push" THEN "q_push" ELSE "q_shift"]
    /\ UNCHANGED <<sledVars, loc, out, pushed, assigned, raced, epoch, engVars, heap, qphase, poisoned>>

\* self.queue.lock()? once the lock is free: the guard, or on a poisoned
\* mutex a PoisonError, which `?` turns into Error::MutexError while the
\* guard inside it is dropped
QLock(t) ==
    /\ pc[t] \in {"q_lock_push", "q_lock_shift"}
    /\ mutex = 0
    /\ IF poisoned
       THEN /\ loc' = [loc EXCEPT ![t] = [NoLoc EXCEPT !.res = "err"]]
            /\ pc' = [pc EXCEPT ![t] = "idle"]
            /\ UNCHANGED mutex
       ELSE /\ mutex' = t
            /\ pc' = [pc EXCEPT ![t] = IF pc[t] = "q_lock_push" THEN "q_push" ELSE "q_shift"]
            /\ UNCHANGED loc
    /\ UNCHANGED <<sledVars, out, pushed, assigned, raced, epoch, engVars, heap, qphase, poisoned>>

\* a push that keeps one copy of equal items
QPushDo_set(t) ==
    /\ pc[t] = "q_push"
    /\ heap' = IF BagIn(loc[t].item, heap) THEN heap ELSE heap (+) SetToBag({loc[t].item})
    /\ mutex' = 0
    /\ loc' = [loc EXCEPT ![t] = [NoLoc EXCEPT !.res = "ok"]]
    /\ pc' = [pc EXCEPT ![t] = "idle"]
    /\ UNCHANGED <<sledVars, out, pushed, assigned, raced, epoch, engVars, qphase, poisoned>>

\* queue.push(item); Ok(()); the guard is dropped
QPushDo(t) ==
    /\ pc[t] = "q_push"
    /\ heap' = heap (+) SetToBag({loc[t].item})
    /\ mutex' = 0
    /\ loc' = [loc EXCEPT ![t] = [NoLoc EXCEPT !.res = "ok"]]
    /\ pc' = [pc EXCEPT ![t] = "idle"]
    /\ UNCHANGED <<sledVars, out, pushed, assigned, raced, epoch, engVars, qphase, poisoned>>

\* Ok(queue.pop()); the guard is dropped
QShiftDo(t) ==
    /\ pc[t] = "q_shift"
    /\ IF BagToSet(heap) = {}
       THEN /\ loc' = [loc EXCEPT ![t] = [NoLoc EXCEPT !.res = "none"]]
            /\ UNCHANGED <<heap, out>>
       ELSE /\ loc' = [loc EXCEPT ![t] = [NoLoc EXCEPT !.res = "some",
                                                       !.item = BinaryHeapPop(heap)]]
            /\ heap' = heap (-) SetToBag({BinaryHeapPop(heap)})
            /\ out' = Append(out, BinaryHeapPop(heap))
    /\ mutex' = 0
    /\ pc' = [pc EXCEPT ![t] = "idle"]
    /\ UNCHANGED <<sledVars, pushed, assigned, raced, epoch, engVars, qphase, poisoned>>

\* another thread takes the lock and panics while it holds the guard; the
\* unwinding drops the guard, which marks the mutex poisoned and frees it
QPoison ==
    /\ mutex = 0
    /\ ~poisoned
    /\ poisoned' = TRUE
    /\ UNCHANGED <<sledVars, pc, loc, out, pushed, assigned, raced, epoch, engVars, heap, mutex, qphase>>

\* ExternalBufferQueue::new
InitQueue ==
    /\ db = EmptyDb
    /\ head_counter = 0
    /\ tail_counter = 0
    /\ pc = [t \in Callers |-> "idle"]
    /\ loc = [t \in Callers |-> NoLoc]
    /\ out = <<>>
    /\ pushed = <<>>
    /\ assigned = <<>>
    /\ raced = FALSE
    /\ epoch = NoEpoch
    /\ EngineOff
    /\ QueueOff

NextQueue ==
    \/ \E t \in Callers, item \in 1..MaxPrio : QCallPush(t, item)
    \/ \E t \in Callers : QCallShift(t)
    \/ \E t \in Callers : QLock(t)
    \/ \E t \in Callers : QPushDo(t)
    \/ \E t \in Callers : QShiftDo(t)
    \/ QPoison

\* concurrent callers of one in-memory buffer
SpecQueue == InitQueue /\ [][NextQueue]_vars

\* ---------------------------------------------------------------- claims
Range(f) == {f[i] : i \in DOMAIN f}
Count(f, x) == Cardinality({i \in DOMAIN f : f[i] = x})

\* C3: on the persistent buffer, in every interleaving of the atomic steps
\* of concurrent shift callers, no stored item is returned by more than one
\* shift call.
C3_NoItemReturnedTwice ==
    \A i, j \in 1..Len(out) : i # j => out[i] # out[j]

\* two shift calls tried to remove the same key: one took the value and
\* the other found nothing
C3_Witness ==
    \E t, u \in Callers :
        /\ pc[t] = "s_inc_none"
        /\ pc[u] = "s_inc_some"
        /\ loc[t].key = loc[u].key

\* every caller's last call was a shift that returned None
AllShiftedToNone ==
    \A t \in Callers : pc[t] = "idle" /\ loc[t].res = "none"

\* C4: concurrent shift callers over a store holding N items, no push racing
\* a shift: once every caller has shifted until None, every stored item has
\* been returned to exactly one caller and the store is empty.
C4_NoItemLost ==
    (~raced /\ AllShiftedToNone) =>
        /\ DOMAIN db = {}
        /\ \A i \in 1..Len(pushed) : Count(out, pushed[i]) = 1

\* C5: head_counter <= tail_counter and every key of the store lies in
\* [head_counter, tail_counter), in every reachable state.
C5_KeysWithinCounters ==
    /\ head_counter <= tail_counter
    /\ \A k \in Keys8(db) : head_counter <= k /\ k < tail_counter

IsPrefix(a, b) == Len(a) <= Len(b) /\ a = SubSeq(b, 1, Len(a))

C9_Recovery ==
    epoch.reopened =>
        /\ IsPrefix(out, pushed)
        /\ (pc[1] = "idle" /\ loc[1].res = "none") => out = pushed
        /\ (epoch.empty /\ Len(pushed) = epoch.pushed) =>
               /\ head_counter = tail_counter
               /\ pc[1] \in {"idle", "s_tail"}
               /\ Len(out) = epoch.out

\* N = MaxSeqPush items were pushed, the store was reopened before any shift,
\* and the shifts since have returned all N and then None
C9_Witness ==
    /\ epoch.reopened
    /\ epoch.pushed = MaxSeqPush
    /\ epoch.out = 0
    /\ out = pushed
    /\ pc[1] = "idle"
    /\ loc[1].res = "none"

\* a store with no keys was reopened and a shift on it has returned None
C9_WitnessEmpty ==
    /\ epoch.reopened
    /\ epoch.empty
    /\ epoch.pushed = 0
    /\ pc[1] = "idle"
    /\ loc[1].res = "none"

\* the source's items, in source order
SourceItems == [i \in 1..srcLen |-> i]

\* poll_next has returned the terminal end marker
Ended == pc[Cons] = "c_end"

\* C1: drain-then-stop.  For a finite source of M items on a fresh store and
\* no fault, in every interleaving of the drain flow and the consumer, the
\* consumer has been given exactly the M items when it is given the end
\* marker.
C1_DrainThenStop ==
    (Ended /\ residual = 0 /\ ~push_err /\ ~shift_err) => out = SourceItems

\* C2: when poll_next returns the end marker (no shift error), the buffer
\* holds no item and no shift is in flight; stated for an engine whose store
\* was empty at construction, so that every buffered item is one the drain
\* flow pushed.
C2_EndOnlyWhenDrained ==
    (Ended /\ residual = 0 /\ ~push_err /\ ~shift_err) =>
        (DOMAIN db = {} /\ ~pending)

\* C10: an engine over a store that holds R > 0 items of an earlier run
\* delivers those R items, in FIFO order and ahead of the new source's,
\* before the end marker; also when the new source is empty.
C10_ResidualDelivered ==
    (Ended /\ residual > 0 /\ ~push_err /\ ~shift_err) =>
        IsPrefix(ResidualItems(residual), out)

\* C7: priority.  A shift on a non-empty in-memory buffer removes and
\* returns an item that is maximal among the items buffered at that moment;
\* a shift on an empty buffer returns None and changes nothing.
C7_Priority ==
    [][\A t \in Callers :
          (pc[t] = "q_shift" /\ pc'[t] = "idle") =>
              IF BagToSet(heap) = {}
              THEN loc'[t].res = "none" /\ heap' = heap
              ELSE /\ loc'[t].res = "some"
                   /\ BagIn(loc'[t].item, heap)
                   /\ \A x \in BagToSet(heap) : x <= loc'[t].item
                   /\ heap' = heap (-) SetToBag({loc'[t].item})]_vars

\* after a shift returned 1, the greatest item then buffered, a 2 and a 1
\* were pushed and the next shift returned the 2, leaving the 1
C7_Witness ==
    /\ Len(out) = 2
    /\ out[1] < out[2]
    /\ BagToSet(heap) # {}
    /\ \E t \in Callers : pc[t] = "idle" /\ loc[t].res = "some" /\ loc[t].item = out[2]

NonIncreasing(f) == \A i, j \in 1..Len(f) : i < j => f[i] >= f[j]

\* C8: once N pushes issued by concurrent threads have all returned,
\* shifting until None returns exactly N items, the same multiset as was
\* pushed, in non-increasing order (the mutex not being poisoned).
C8_AllPushedComeOut ==
    (/\ qphase = "draining"
     /\ ~poisoned
     /\ \E t \in Callers : pc[t] = "idle" /\ loc[t].res = "none") =>
        /\ Len(out) = Len(pushed)
        /\ \A x \in 1..MaxPrio : Count(out, x) = Count(pushed, x)
        /\ NonIncreasing(out)

\* MaxQPush pushes, two of them of equal items and not in priority order,
\* all returned before the first shift; the shifts then emptied the buffer
C8_Witness ==
    /\ qphase = "draining"
    /\ Len(pushed) = MaxQPush
    /\ Len(out) = MaxQPush
    /\ ~NonIncreasing(pushed)
    /\ out[1] = out[2]
    /\ \E t \in Callers : pc[t] = "idle" /\ loc[t].res = "none"

\* C13: once a thread has panicked while holding the in-memory buffer's
\* lock, every later push and shift returns Error::MutexError instead of
\* blocking (the lock stays free), and the heap is left unchanged.
C13_PoisonedErrors ==
    [][poisoned =>
          /\ poisoned'
          /\ mutex = 0
          /\ heap' = heap
          /\ out' = out
          /\ \A t \in Callers :
                (pc[t] \in {"q_lock_push", "q_lock_shift"} /\ pc'[t] # pc[t]) =>
                    (pc'[t] = "idle" /\ loc'[t].res = "err")]_vars

\* with an item in the heap the mutex was poisoned; since then a push and a
\* shift have returned the error and the item is still there
C13_Witness ==
    /\ poisoned
    /\ heap # EmptyBag
    /\ Len(pushed) > BagCardinality(heap) + Len(out)
    /\ \A t \in Callers : pc[t] = "idle" /\ loc[t].res = "err"

\* C11: constructing the persistent buffer over a store that holds a key
\* whose length is not 8 bytes fails with Error::InvalidSledKeyFormat, and
\* no buffer is returned.
C11_BadKeyRejected ==
    (epoch.reopened /\ \E k \in DOMAIN db : Len(k) # 8) => epoch.err

\* C12 as stated: over the whole lifetime of a store, close/reopen cycles and
\* full drains included, a key once assigned by push is never assigned again.
C12_KeyNeverReused ==
    \A i, j \in DOMAIN assigned : i # j => assigned[i] # assigned[j]

\* C12, amended: the pushes of one opened buffer are assigned distinct keys,
\* and the next key to be assigned is always greater than every key in the
\* store, so a push never takes the key of a stored item; a key whose item
\* has been shifted out may be assigned again after a reopen.
C12_KeyNotReusedWhileOpen ==
    /\ \A i, j \in (epoch.pushed + 1)..Len(assigned) :
          i # j => assigned[i] # assigned[j]
    /\ \A k \in Keys8(db) : k < tail_counter
    /\ \A i \in (epoch.pushed + 1)..Len(assigned) : assigned[i] < tail_counter

\* a store that still held items was reopened and two pushes followed
C12_Witness ==
    /\ epoch.reopened
    /\ ~epoch.empty
    /\ Len(assigned) >= epoch.pushed + 2

\* C14 as stated: when the consumer is discarded while the source still has
\* items, the drain flow keeps pulling and pushing every remaining item and
\* stops only when the source ends or a push fails.
C14_DrainGoesOn ==
    (/\ dropSrc >= 0
     /\ dropSrc < srcLen
     /\ ~push_err
     /\ pc[Drain] = "d_done") => (src = srcLen /\ Len(pushed) = srcLen)

\* C14, amended: discarding the consumer does not stop the drain flow at
\* once, but its next doorbell send fails and it stops early: after the
\* discard it pulls at most one more item, and it ends with the stop flag set.
C14_DrainStopsAfterDiscard ==
    dropSrc >= 0 =>
        /\ src <= dropSrc + 1
        /\ Len(pushed) <= dropSrc + 1
        /\ pc[Drain] = "d_done" => stop_flag

\* the consumer was dropped before the first item was pulled; the drain flow
\* pushed that item, failed to signal and stopped with an item left unpulled
C14_Witness ==
    /\ dropSrc = 0
    /\ pc[Drain] = "d_done"
    /\ src = 1
    /\ Len(pushed) = 1
    /\ src < srcLen
    /\ ~push_err
    /\ stop_flag

\* the pushes of the drain flow that returned Ok
PushedOk == Len(pushed) - (IF push_err \/ pc[Drain] = "p_insert" THEN 1 ELSE 0)

\* C15: with the consumer alive, the drain flow has sent K + 1 signals when
\* it finishes after K successful pushes: one after each successful push and
\* one final signal after setting the stop flag.
C15_SignalPerPushPlusFinal ==
    (pc[Drain] = "d_done" /\ dropSrc = -1) => sent = PushedOk + 1

\* C16: a push failure stops only the producing side: every item pushed
\* successfully before the failing push has been delivered, in order, when
\* the consumer is given the end marker.
C16_PushedBeforeFailureDelivered ==
    (Ended /\ push_err /\ ~shift_err /\ residual = 0) =>
        out = SubSeq(pushed, 1, PushedOk)

\* C17: when the in-flight shift resolves to an error, that poll_next returns
\* the end marker, clears the in-flight slot, yields nothing and starts no
\* other shift.
C17_ShiftErrorEnds ==
    [][(pc[Cons] = "c_result" /\ loc[Cons].res = "err") =>
          /\ pc'[Cons] \in {"c_result", "c_end"}
          /\ pc'[Cons] = "c_end" => (~pending' /\ out' = out)]_vars

\* after a signal the consumer's shift failed while an item was stored; the
\* consumer was given the end marker with no shift in flight and the item
\* still in the store
C17_Witness ==
    /\ shift_err
    /\ Ended
    /\ ~pending
    /\ DOMAIN db # {}
    /\ ~stop_flag

\* C18: no lost wakeup.  Under fair scheduling of the two tasks, a consumer
\* that is not dropped is eventually given the end marker, whether the source
\* ended or the drain flow stopped early.
C18_EventuallyEnds == <>(pc[Cons] \in {"c_end", "c_dropped"})

\* the consumer is parked on the empty doorbell when the drain flow finishes
\* and drops the sender
C18_Witness ==
    /\ pc[Cons] = "c_wait"
    /\ pc[Drain] = "d_done"
    /\ notify = 0
    /\ ~sender_alive

\* C19: on a store that was empty at construction, in every interleaving of
\* the drain flow and the consumer, the items given to the consumer so far
\* are a prefix of the source's sequence.
C19_YieldedPrefixOfSource ==
    residual = 0 => IsPrefix(out, SourceItems)

\* the consumer has been given the whole source of MaxSource items
C19_Witness ==
    /\ residual = 0
    /\ srcLen = MaxSource
    /\ out = SourceItems

\* C21: startup recovery.  A close and reopen after any pushes and shifts
\* leaves head at the least 8-byte key of the store and tail at the greatest
\* plus one, or both at 0 when there is none; keys missing in between change
\* nothing.
C21_RecoveredCounters ==
    [][epoch' # epoch =>
          /\ db' = db
          /\ IF Keys8(db) = {}
             THEN head_counter' = 0 /\ tail_counter' = 0
             ELSE /\ head_counter' \in Keys8(db)
                  /\ \A k \in Keys8(db) : head_counter' <= k /\ k < tail_counter'
                  /\ tail_counter' - 1 \in Keys8(db)]_vars

\* a store holding the keys 0 and 2 but not 1 has been opened
C21_Witness ==
    /\ epoch.reopened
    /\ Keys8(db) = {0, 2}
    /\ head_counter = 0
    /\ tail_counter = 3
    /\ pushed = <<>>
    /\ out = <<>>

\* C22: within one opened persistent buffer, in every interleaving of
\* concurrent pushes, no two pushes obtain the same key and a push that
\* reserves its key later obtains a strictly larger key.
C22_KeysStrictlyIncrease ==
    \A i, j \in (epoch.pushed + 1)..Len(assigned) :
        i < j => assigned[i] < assigned[j]

\* two callers are inside push at the same time, keys reserved and not yet
\* inserted
C22_Witness ==
    /\ \A t \in Callers : pc[t] = "p_insert"
    /\ \E t, u \in Callers : loc[t].key # loc[u].key
    /\ Len(assigned) >= epoch.pushed + NumCallers

\* C23: a push and a shift of independent callers may overlap: when a shift
\* runs between a push's key reservation and its insert, the item of every
\* push that has completed is still returned by a shift once the shifting
\* caller has shifted until None.
C23_PushShiftSafe ==
    (/\ raced
     /\ pc[Pusher] = "idle"
     /\ pc[Shifter] = "idle"
     /\ loc[Shifter].res = "none") =>
        \A i \in 1..Len(pushed) : pushed[i] \in Range(out)

\* C24: gap handling.  A shift that finds nothing at key = head, because a
\* racing shift took it, advances head by exactly 1 and retries in the same
\* call, so the call returns the item at the least present key >= head, and
\* None only when no key below tail is present (no push being in flight
\* during any shift).
C24_NoneOnlyWhenNothingBelowTail ==
    [][\A t \in Callers :
          (/\ ~raced
           /\ pc[t] = "s_tail"
           /\ pc'[t] = "idle"
           /\ loc'[t].res = "none") =>
              \A k \in Keys8(db) : k >= tail_counter]_vars

\* the drain flow has left its loop
DrainStopped == pc[Drain] \in {"d_stop", "d_final", "d_done"}

\* C25: the stop flag is false from construction until the drain flow has
\* finished (source exhausted, push failure or doorbell-send failure); it is
\* set exactly once, by the drain flow, and never reset.
C25_StopFlagSetOnce ==
    [][/\ stop_flag <=> pc[Drain] \in {"d_final", "d_done"}
       /\ stop_flag => stop_flag'
       /\ stop_flag' # stop_flag => (pc[Drain] = "d_stop" /\ pc'[Drain] = "d_final")]_vars

\* the drain flow stopped early, set the flag and ended; the consumer has
\* read the flag
C25_Witness ==
    /\ stop_flag
    /\ pc[Drain] = "d_done"
    /\ src < srcLen
    /\ Ended

\* C26: edge-triggered consumption.  The shifts the consumer has started are
\* at most the signals it has received, which are at most the successful
\* pushes of the drain flow plus one.
C26_ShiftOnlyAfterSignal ==
    /\ started <= recv
    /\ recv <= PushedOk + 1

\* every push of a source of MaxSource items was signalled and each signal
\* started one shift
C26_Witness ==
    /\ PushedOk = MaxSource
    /\ recv = MaxSource
    /\ started = MaxSource

\* C27: an in-flight shift that resolves to Ok(None) does not end the
\* sequence: poll_next clears the in-flight slot and goes on to the
\* doorbell; the sequence ends there only when the sender is gone, and at
\* the top of the loop only when the stop flag is set.
C27_EmptyResultGoesOn ==
    [][/\ (pc[Cons] = "c_result" /\ loc[Cons].res = "none" /\ pc'[Cons] # "c_result") =>
              (pc'[Cons] = "c_notify" /\ ~pending' /\ out' = out /\ endOut' = endOut)
       /\ (pc[Cons] = "c_notify" /\ pc'[Cons] = "c_end") =>
              (~sender_alive /\ notify = 0)
       /\ (pc[Cons] = "c_top" /\ pc'[Cons] = "c_end") => stop_flag]_vars

\* after an empty shift result the consumer is waiting on the doorbell
C27_Witness ==
    /\ pc[Cons] = "c_wait"
    /\ loc[Cons].res = "none"
    /\ ~pending
    /\ endOut = -1

\* C28: after a push failure or a doorbell-send failure the drain flow stops
\* early: it pulls no further item and pushes nothing more, the item whose
\* push failed is not in the buffer, and the flow still sets the stop flag.
C28_DrainStopsEarly ==
    [][/\ push_err => DrainStopped
       /\ push_err => \A k \in DOMAIN db :
                          from_external_buffer(db[k]) # pushed[Len(pushed)]
       /\ (pc[Drain] = "d_send" /\ ~rx_alive /\ pc'[Drain] # "d_send") =>
              pc'[Drain] = "d_stop"
       /\ DrainStopped =>
              /\ DrainStopped'
              /\ src' = src
              /\ pushed' = pushed
              /\ DOMAIN db' \subseteq DOMAIN db
       /\ pc[Drain] = "d_done" => stop_flag]_vars

\* a push failed; the drain flow ended with the stop flag set and
\* an item of the source unpulled
C28_Witness ==
    /\ push_err
    /\ pc[Drain] = "d_done"
    /\ stop_flag
    /\ Len(pushed) = src
    /\ src < srcLen

\* C29: the end marker is absorbing: once poll_next has returned it, no
\* later poll_next yields an item.
C29_EndAbsorbing ==
    endOut >= 0 => Len(out) = endOut

\* C30: in the engine over a store that was empty at construction, every
\* shift the consumer starts finds a value at key = head: it never returns
\* empty, never skips a key, and head advances by exactly 1 per shift.
C30_ConsumerShiftFindsHead ==
    residual = 0 =>
        /\ pc[Cons] # "s_inc_none"
        /\ ~(pc[Cons] = "c_result" /\ loc[Cons].res = "none")
        /\ pc[Cons] \in {"s_head", "s_tail", "s_remove"} =>
              key_from_u64(head_counter) \in DOMAIN db
        /\ head_counter =
              Len(out) + (IF pc[Cons] = "c_result" /\ loc[Cons].res = "some" THEN 1 ELSE 0)

\* the consumer has started MaxSource shifts and each returned an item
C30_Witness ==
    /\ residual = 0
    /\ started = MaxSource
    /\ Len(out) = MaxSource
    /\ head_counter = MaxSource

\* C31: a push never overwrites a live item.  In every interleaving of
\* concurrent pushes and shifts and across close/reopen, the key a push
\* inserts at holds no value just before the insert, and the tail a reopen
\* recovers is greater than every key present in the store.
C31_PushWritesFreshKey ==
    [][/\ \A t \in Callers :
             (pc[t] = "p_insert" /\ loc'[t].res = "ok") =>
                 /\ loc[t].key \notin DOMAIN db
                 /\ db' = DbInsert(db, loc[t].key, loc[t].data)
       /\ epoch' # epoch => \A k \in Keys8(db') : k < tail_counter']_vars

\* a push has inserted its item into a store that was reopened while it
\* held an item
C31_Witness ==
    /\ epoch.reopened
    /\ epoch.pushed = 1
    /\ Keys8(db) = {0, 1}
    /\ \A t \in Callers : pc[t] = "idle"

\* C32: a push whose encode step fails returns the error with tail_counter,
\* head_counter and the store unchanged and no key reserved; the tail counter
\* moves only in a push whose item has been encoded, by 1, and that push
\* holds the encoded item and the key of the old tail.
C32_EncodeFailureChangesNothing ==
    [][/\ \A t \in Callers :
             (loc'[t].res = "encode_err" /\ loc'[t] # loc[t]) =>
                 /\ db' = db
                 /\ head_counter' = head_counter
                 /\ tail_counter' = tail_counter
                 /\ assigned' = assigned
                 /\ pc'[t] = "idle"
       /\ tail_counter' # tail_counter =>
             /\ tail_counter' = tail_counter + 1
             /\ assigned' = Append(assigned, tail_counter)
             /\ \E t \in Callers :
                   /\ pc[t] = "idle" /\ pc'[t] = "p_insert"
                   /\ loc'[t].key = key_from_u64(tail_counter)
                   /\ from_external_buffer(loc'[t].data) = loc'[t].item]_vars

\* after one push had reserved key 0 and stored its item, a push of another
\* item has failed to encode
C32_Witness ==
    /\ loc[Pusher].res = "encode_err"
    /\ loc[Pusher].item = 2
    /\ pc[Pusher] = "idle"
    /\ assigned = <<0>>
    /\ tail_counter = 1
    /\ Keys8(db) = {0}

\* C33: a shift that removes a value it cannot decode returns the decode
\* error with the key already out of the store and head advanced by 1, and
\* hands out nothing; the removed key was the one at head, and no key below
\* head stays in the store, so a following shift reads the next key and
\* never the undecodable value again.
C33_DecodeErrorConsumesKey ==
    [][/\ (pc[1] = "s_inc_some" /\ loc'[1].res = "err") =>
             /\ from_external_buffer(loc[1].data) = -1
             /\ loc[1].key = key_from_u64(head_counter)
             /\ loc[1].key \notin DOMAIN db'
             /\ head_counter' = head_counter + 1
             /\ pc'[1] = "idle"
             /\ out' = out
       /\ Opened' => \A k \in Keys8(db') : k >= head_counter'
       /\ (pc[1] = "s_inc_some" /\ loc'[1].res = "some") =>
             /\ loc[1].key = key_from_u64(head_counter)
             /\ out' = Append(out, from_external_buffer(loc[1].data))]_vars

\* the store held an undecodable value at key 0 and the item 102 at key 1:
\* the first shift has returned the decode error and left key 1 at head
C33_Witness ==
    /\ Opened
    /\ pc[1] = "idle"
    /\ loc[1].res = "err"
    /\ head_counter = 1
    /\ Keys8(db) = {1}
    /\ from_external_buffer(db[key_from_u64(1)]) = 102
    /\ out = <<>>

\* C20: the codec round-trips: decoding the bytes an item was encoded to
\* succeeds and gives the item, so a shift of the persistent buffer never
\* fails to decode and returns the item that was pushed.
C20_RoundTrip ==
    /\ \A i \in 1..Len(pushed) :
          from_external_buffer(into_external_buffer(pushed[i])) = pushed[i]
    /\ \A k \in DOMAIN db : from_external_buffer(db[k]) \in Range(pushed)
    /\ loc[1].res # "err"
    /\ IsPrefix(out, pushed)

\* an item of more than one encoded byte was pushed and shifted back
C20_Witness ==
    /\ Len(out) = 1
    /\ out = pushed
    /\ out[1] >= 251

====
